---- MODULE Spec2Model ----
(***************************************************************************)
(* Model of the fink-filters candidate filters:                            *)
(*   early_kn_candidates  (filter_early_kn_candidates/filter.py)           *)
(*   kn_candidates        (filter_kn_candidates/filter.py)                 *)
(*   early_sn_candidates_ (filter_early_sn_candidates/filter.py)           *)
(*                                                                         *)
(* Units.  Scores (drb, classtar, knscore, ...) are in tenths, so the      *)
(* threshold 0.5 is 5 and 0.4 is 4.  Times are in hundredths of a day, so  *)
(* 0.25 d is 25 and 20 d is 2000.  Magnitudes are in tenths of a           *)
(* magnitude.  Sky positions lie on the celestial equator (dec = 0) and    *)
(* are given by ra in micro-radians; the separation of two positions is    *)
(* the difference of their ra.  Angular-diameter distances are in units of   *)
(* 0.01 Mpc.                                                               *)
(* A luminosity distance is carried as lum_dex = 10 * log10(lum_dist/Mpc). *)
(*                                                                         *)
(* A column value is a cell: a number, NaN (an absent value, which Spark   *)
(* hands to pandas as NaN) or a string that is no number.                  *)
(***************************************************************************)
EXTENDS Integers, Sequences, FiniteSets

VARIABLES
    variant,                \* which filter processes the batch
    batch,                  \* the alert columns, one record per alert
    catalogFile,            \* data/mangrove_filtered.csv, as stored
    env,                    \* names defined in os.environ
    day,                    \* isoweekday of datetime.utcnow()
    run,                    \* how many times the batch has been submitted
    prev,                   \* vector returned by the previous run, <<>> if none
    pc,                     \* position in the function body
    f_kn,                   \* the boolean verdict vector (f_sn_early in early_sn)
    pdf_mangrove,           \* the catalog as loaded by pd.read_csv, <<>> if not loaded
    nloads,                 \* number of pd.read_csv calls so far
    galaxy_matching,        \* per pdf row: is there an accepted catalog entry
    host_galaxies,          \* catalog index of the selected host, per matched row
    abs_mag_candidate,      \* absolute magnitude with the selected host
    host_alert_separation,  \* separation from the selected host
    i,                      \* enumerate() index of the notification loop
    step,                   \* channel block of the loop body to execute next
    log,                    \* requests.post calls and log.warning calls, in order
    cause                   \* what raised, when pc = "raised"

vars == <<variant, batch, catalogFile, env, day, run, prev, pc, f_kn,
          pdf_mangrove, nloads, galaxy_matching, host_galaxies,
          abs_mag_candidate, host_alert_separation, i, step, log, cause>>

----------------------------------------------------------------------------
(* Bounds of the model *)

MaxBatch == 2
MaxRuns == 2

----------------------------------------------------------------------------
(* Cells and numeric coercion *)

Num(n) == [t |-> "num", v |-> n]
NaN == [t |-> "nan", v |-> 0]
Str == [t |-> "str", v |-> 0]
Raise == [t |-> "raise", v |-> 0]

IsNum(c) == c.t = "num"

\* Series.astype(float): a number stays, an absent value is NaN, a string
\* that is no number raises ValueError.
AsFloat(c) == IF c.t = "str" THEN Raise ELSE c

\* Series.astype(int): a number stays, NaN cannot be converted and raises
\* ValueError, and so does a string that is no number.
AsInt(c) == IF c.t = "num" THEN c ELSE Raise

\* Comparisons of floats: any comparison with NaN is False.
Gt(c, n) == c.t = "num" /\ c.v > n
Lt(c, n) == c.t = "num" /\ c.v < n
Le(c, n) == c.t = "num" /\ c.v <= n
Ne(c, n) == ~(c.t = "num" /\ c.v = n)

\* Difference of two float columns.
Minus(a, b) == IF a.t = "num" /\ b.t = "num" THEN Num(a.v - b.v) ELSE NaN

Abs(n) == IF n < 0 THEN -n ELSE n

\* The positions of the True entries of a boolean vector, in order:
\* what indexing a column with [f_kn] keeps.
RECURSIVE TruePositions(_, _)
TruePositions(f, k) ==
    IF k > Len(f) THEN <<>>
    ELSE IF f[k] THEN <<k>> \o TruePositions(f, k + 1)
    ELSE TruePositions(f, k + 1)

Masked(f) == TruePositions(f, 1)

AnyTrue(f) == \E k \in 1..Len(f) : f[k]

----------------------------------------------------------------------------
(* Cross-match labels kept by the filters *)

list_simbad_galaxies ==
    {"galaxy", "Galaxy", "EmG", "Seyfert", "Seyfert_1", "Seyfert_2",
     "BlueCompG", "StarburstG", "LSB_G", "HII_G", "High_z_G", "GinPair",
     "GinGroup", "BClG", "GinCl", "PartofG"}

keep_cds == {"Unknown", "Transient", "Fail"} \cup list_simbad_galaxies

keep_cds_sn ==
    {"Unknown", "Candidate_SN*", "SN", "Transient", "Fail"}
        \cup list_simbad_galaxies

----------------------------------------------------------------------------
(* The sky of the model *)

\* Sample right ascensions on the equator, in micro-radians (192.86, 277.2,
\* 260.2 and 12.83 degrees); SkyCoord(...).galactic.b is about +62.9, +5, +20
\* and -62.9 degrees there.
SampleRa == [high |-> 3366000, low |-> 4838000, mid |-> 4542000, south |-> 224000]
RaHigh == SampleRa.high
RaLow == SampleRa.low
RaMid == SampleRa.mid
RaSouth == SampleRa.south

\* gal.b.degree of a position near one of the sample right ascensions.
GalacticB(ra) ==
    IF Abs(ra - RaHigh) <= 100000 THEN 62
    ELSE IF Abs(ra - RaLow) <= 100000 THEN 5
    ELSE IF Abs(ra - RaMid) <= 100000 THEN 20
    ELSE -62

\* SkyCoord.separation(...).radian of two equatorial positions, in micro-radians.
Separation(ra1, ra2) == Abs(ra1 - ra2)

\* 2 * u.degree is 34906.585 micro-radians: the whole separations within the
\* radius are those up to 34906.
TwoDegrees == 34906

\* Catalog rows: ra, lum_dex = 10 * log10(lum_dist / Mpc), ang_dist in 0.01 Mpc.
Galaxy(ra, dex, ang) == [ra |-> ra, lum_dex |-> dex, ang_dist |-> ang]

GA == Galaxy(RaHigh, 20, 10000)
GB == Galaxy(RaHigh + 50, 22, 15000)
GC == Galaxy(RaLow, 20, 10000)
GD == Galaxy(RaMid, 20, 10000)
GE == Galaxy(RaSouth, 20, 10000)
GNear == Galaxy(RaHigh, -10, 10)

Catalogs ==
    { <<GA, GB, GC, GD, GE, GNear>>,
      <<GNear, GB, GA, GE, GD, GC>> }

----------------------------------------------------------------------------
(* Alerts of the model: a reference alert of each filter, and the alerts    *)
(* that differ from it in one column (position and magnitude together).     *)

EknRef ==
    [drb |-> Num(9), classtar |-> Num(6), jd |-> Num(10),
     jdstarthist |-> Num(0), roid |-> Num(0), cdsxmatch |-> "Unknown",
     mag |-> Num(195), ra |-> RaHigh, field |-> Num(1525), fid |-> 1]

EknSky ==
    { <<RaHigh, Num(190)>>, <<RaHigh, Num(200)>>, <<RaHigh, Num(180)>>,
      <<RaHigh, NaN>>, <<RaHigh - 100, Num(195)>>,
      <<RaLow, Num(190)>>, <<RaMid, Num(190)>>, <<RaSouth, Num(190)>>,
      <<RaHigh + 30000, Num(40)>>, <<RaHigh + 52360, Num(40)>> }

EknAlerts ==
    {EknRef}
    \cup {[EknRef EXCEPT !.drb = c] : c \in {Num(5), NaN, Str}}
    \cup {[EknRef EXCEPT !.classtar = c] : c \in {Num(4)}}
    \cup {[EknRef EXCEPT !.jd = c] : c \in {Num(25)}}
    \cup {[EknRef EXCEPT !.roid = c] : c \in {Num(3), NaN}}
    \cup {[EknRef EXCEPT !.cdsxmatch = c] : c \in {"Star"}}
    \cup {[EknRef EXCEPT !.field = c] : c \in {Num(700), NaN}}
    \cup {[EknRef EXCEPT !.ra = p[1], !.mag = p[2]] : p \in EknSky}

\* One entry of the history columns cjd, cfid, cmagpsf of kn_candidates.
Hist(jd, fid, nan) == [jd |-> jd, fid |-> fid, nan |-> nan]

KnRef ==
    [knscore |-> Num(9), drb |-> Num(9), classtar |-> Num(6),
     jdstarthist |-> Num(0), ndethist |-> Num(3), cdsxmatch |-> "Unknown",
     hist |-> <<Hist(100, 1, FALSE), Hist(200, 2, FALSE), Hist(300, 1, FALSE)>>]

KnHistories ==
    { <<Hist(100, 1, FALSE), Hist(300, 1, FALSE)>>,
      <<Hist(300, 1, FALSE)>>,
      <<Hist(100, 1, FALSE), Hist(200, 2, TRUE), Hist(300, 1, FALSE)>>,
      <<Hist(100, 1, TRUE), Hist(200, 2, FALSE), Hist(300, 1, FALSE)>>,
      <<Hist(100, 1, FALSE), Hist(200, 2, FALSE), Hist(2000, 1, FALSE)>> }

KnAlerts ==
    {KnRef}
    \cup {[KnRef EXCEPT !.knscore = c] : c \in {Num(5)}}
    \cup {[KnRef EXCEPT !.drb = c] : c \in {Num(5), NaN, Str}}
    \cup {[KnRef EXCEPT !.classtar = c] : c \in {Num(4)}}
    \cup {[KnRef EXCEPT !.ndethist = c] : c \in {Num(20), NaN}}
    \cup {[KnRef EXCEPT !.cdsxmatch = c] : c \in {"Star"}}
    \cup {[KnRef EXCEPT !.hist = h] : h \in KnHistories}

SnRef ==
    [cdsxmatch |-> "Unknown", snn_snia_vs_nonia |-> Num(9),
     snn_sn_vs_all |-> Num(9), rf_snia_vs_nonia |-> Num(9),
     ndethist |-> Num(3), drb |-> Num(9), classtar |-> Num(6)]

SnAlerts ==
    {SnRef}
    \cup {[SnRef EXCEPT !.snn_snia_vs_nonia = c] : c \in {Num(3)}}
    \cup {[SnRef EXCEPT !.snn_sn_vs_all = c] : c \in {Num(3)}}
    \cup {[SnRef EXCEPT !.snn_snia_vs_nonia = Num(5), !.snn_sn_vs_all = c] :
             c \in {Num(5), NaN}}
    \cup {[SnRef EXCEPT !.rf_snia_vs_nonia = c] : c \in {Num(5)}}
    \cup {[SnRef EXCEPT !.ndethist = c] : c \in {Num(20), Num(21), NaN}}
    \cup {[SnRef EXCEPT !.drb = c] : c \in {Num(5), NaN, Str}}
    \cup {[SnRef EXCEPT !.classtar = c] : c \in {Num(4)}}
    \cup {[SnRef EXCEPT !.cdsxmatch = c] : c \in {"Star", "SN"}}

Variants == {"early_kn", "kn", "early_sn"}

AlertsOf(v) ==
    IF v = "early_kn" THEN EknAlerts
    ELSE IF v = "kn" THEN KnAlerts
    ELSE SnAlerts

Batches(v) == UNION {[1..n -> AlertsOf(v)] : n \in 1..MaxBatch}

\* The environment variables each filter reads.
Webhooks(v) ==
    IF v = "early_kn"
    THEN {"KNWEBHOOK", "KNWEBHOOK_FINK", "KNWEBHOOK_AMA_GALAXIES",
          "KNWEBHOOK_DWF"}
    ELSE IF v = "kn" THEN {"KNWEBHOOK"}
    ELSE {}

\* isoweekday(): Monday is 1 and Sunday is 7.
Friday == 5
Days == {Friday, Friday + 1}

----------------------------------------------------------------------------
(* early_kn_candidates: the cuts on the alert columns *)

EknCoercions(a) ==
    {AsFloat(a.drb), AsFloat(a.classtar), AsFloat(a.jd),
     AsFloat(a.jdstarthist), AsInt(a.roid)}

\* Mutant of high_drb: the comparison is not strict (drb >= 0.5).
high_drb_inclusive(a) == Gt(AsFloat(a.drb), 4)

high_drb(a) == Gt(AsFloat(a.drb), 5)

high_classtar(a) == Gt(AsFloat(a.classtar), 4)

\* Mutant of new_detection: the comparison is not strict
\* (jd - jdstarthist <= 0.25).
new_detection_inclusive(a) ==
    Lt(Minus(AsFloat(a.jd), AsFloat(a.jdstarthist)), 26)

new_detection(a) == Lt(Minus(AsFloat(a.jd), AsFloat(a.jdstarthist)), 25)

not_ztf_sso_candidate(a) == Ne(AsInt(a.roid), 3)

EknCuts(a) ==
    /\ high_drb(a) /\ high_classtar(a) /\ new_detection(a)
    /\ a.cdsxmatch \in keep_cds /\ not_ztf_sso_candidate(a)

(* kn_candidates: the cuts on the alert columns *)

\* jd = cjd.apply(lambda x: x[-1])
LastJd(a) == Num(a.hist[Len(a.hist)].jd)

\* fid = cfid.apply(lambda x: x[-1])
LastFid(a) == a.hist[Len(a.hist)].fid

KnCoercions(a) ==
    {AsFloat(a.knscore), AsFloat(a.drb), AsFloat(a.classtar),
     AsFloat(LastJd(a)), AsFloat(a.jdstarthist), AsFloat(a.ndethist)}

\* Mutant of KnCuts: the cut on ndethist is made inside the
\* "if 'KNWEBHOOK' in os.environ" block.
KnCutsInsideWebhookBlock(a) ==
    /\ Gt(AsFloat(a.knscore), 5)
    /\ Gt(AsFloat(a.drb), 5)
    /\ Gt(AsFloat(a.classtar), 4)
    /\ Lt(Minus(AsFloat(LastJd(a)), AsFloat(a.jdstarthist)), 2000)
    /\ ("KNWEBHOOK" \in env => Lt(AsFloat(a.ndethist), 20))
    /\ a.cdsxmatch \in keep_cds

KnCuts(a) ==
    /\ Gt(AsFloat(a.knscore), 5)
    /\ Gt(AsFloat(a.drb), 5)
    /\ Gt(AsFloat(a.classtar), 4)
    /\ Lt(Minus(AsFloat(LastJd(a)), AsFloat(a.jdstarthist)), 2000)
    /\ Lt(AsFloat(a.ndethist), 20)
    /\ a.cdsxmatch \in keep_cds

(* early_sn_candidates_: the cuts on the alert columns *)

SnCoercions(a) ==
    {AsFloat(a.snn_snia_vs_nonia), AsFloat(a.snn_sn_vs_all),
     AsFloat(a.rf_snia_vs_nonia), AsInt(a.ndethist), AsFloat(a.drb),
     AsFloat(a.classtar)}

SnCuts(a) ==
    LET snn1 == Gt(AsFloat(a.snn_snia_vs_nonia), 5)
        snn2 == Gt(AsFloat(a.snn_sn_vs_all), 5)
        active_learn == Gt(AsFloat(a.rf_snia_vs_nonia), 5)
        early_ndethist == Le(AsInt(a.ndethist), 20)
        f_sn == /\ (snn1 \/ snn2)
                /\ a.cdsxmatch \in keep_cds_sn
                /\ Gt(AsFloat(a.drb), 5)
                /\ Gt(AsFloat(a.classtar), 4)
    IN  early_ndethist /\ active_learn /\ f_sn

\* The casts are made on whole columns: one value that cannot be cast raises
\* for the batch.
CastRaises(v, b) ==
    \E k \in 1..Len(b) :
        Raise \in (IF v = "early_kn" THEN EknCoercions(b[k])
                   ELSE IF v = "kn" THEN KnCoercions(b[k])
                   ELSE SnCoercions(b[k]))

Cuts(v, b) ==
    [k \in 1..Len(b) |->
        IF v = "early_kn" THEN EknCuts(b[k])
        ELSE IF v = "kn" THEN KnCuts(b[k])
        ELSE SnCuts(b[k])]

----------------------------------------------------------------------------
(* early_kn_candidates: cross-match with the Mangrove catalog *)

\* search_around_sky(catalog_mangrove, 2 * u.degree), for one pdf row: the
\* catalog indices within the radius, in catalog order.
idx_reduced(a, cat) ==
    LET Near(g) == Separation(a.ra, cat[g].ra) <= TwoDegrees
    IN  SelectSeq([g \in 1..Len(cat) |-> g], Near)

\* row.mag - 25 - 5 * np.log10(lum_dist), in tenths of a magnitude.
abs_mag(a, gal) ==
    IF IsNum(a.mag) THEN Num(a.mag.v - 250 - 5 * gal.lum_dex) ELSE NaN

\* 0.01 / ang_dist in micro-radians: the separations strictly below it are
\* the integers up to (10^6 - 1) \div ang_dist.
MaxSeparation(gal) == (1000000 - 1) \div gal.ang_dist

\* Mutant of AcceptedHost: the bright end of the window is not strict.
AcceptedHostInclusive(a, gal) ==
    /\ Separation(a.ra, gal.ra) <= MaxSeparation(gal)
    /\ Gt(abs_mag(a, gal), -171)
    /\ Lt(abs_mag(a, gal), -150)

AcceptedHost(a, gal) ==
    /\ Separation(a.ra, gal.ra) <= MaxSeparation(gal)
    /\ Gt(abs_mag(a, gal), -170)
    /\ Lt(abs_mag(a, gal), -150)

\* Mutant of candidates_number: the accepted positions come last first, so
\* that candidates_number[0][0] is the accepted entry that is last in the
\* catalog.
candidates_number_last_first(a, cat) ==
    LET idx == idx_reduced(a, cat)
        Ok(p) == AcceptedHost(a, cat[idx[p]])
        cn == SelectSeq([p \in 1..Len(idx) |-> p], Ok)
    IN  [p \in 1..Len(cn) |-> cn[Len(cn) + 1 - p]]

\* np.argwhere(...): the positions in idx_reduced of the accepted entries.
candidates_number(a, cat) ==
    LET idx == idx_reduced(a, cat)
        Ok(p) == AcceptedHost(a, cat[idx[p]])
    IN  SelectSeq([p \in 1..Len(idx) |-> p], Ok)

\* The loop over pdf.itertuples(): rows are the alerts kept by the cuts.
RECURSIVE CrossMatch(_, _, _, _)
CrossMatch(rows, b, cat, acc) ==
    IF rows = <<>> THEN acc
    ELSE
        LET a == b[Head(rows)]
            idx == idx_reduced(a, cat)
            cn == candidates_number(a, cat)
            host == idx[cn[1]]
            found == Len(cn) > 0
        IN  CrossMatch(Tail(rows), b, cat,
                [matching |-> Append(acc.matching, found),
                 hosts |-> IF found THEN Append(acc.hosts, host)
                           ELSE acc.hosts,
                 absmags |-> IF found
                             THEN Append(acc.absmags, abs_mag(a, cat[host]).v)
                             ELSE acc.absmags,
                 seps |-> IF found
                          THEN Append(acc.seps, Separation(a.ra, cat[host].ra))
                          ELSE acc.seps])

NoMatches == [matching |-> <<>>, hosts |-> <<>>, absmags |-> <<>>, seps |-> <<>>]

\* f_kn.loc[f_kn] = np.array(galaxy_matching, dtype=bool)
Overridden(f, matching) ==
    LET rows == Masked(f)
    IN  [k \in 1..Len(f) |->
            IF f[k]
            THEN matching[CHOOSE r \in 1..Len(rows) : rows[r] = k]
            ELSE FALSE]

----------------------------------------------------------------------------
(* kn_candidates: what the loop computes before it builds the message *)

\* maskNotNone: the history entries whose cmagpsf is not NaN.
NotNone(h) == LET Known(e) == ~e.nan IN SelectSeq(h, Known)

\* m = maskNotNone * maskFilter
InBand(h, filt) == LET Same(e) == ~e.nan /\ e.fid = filt IN SelectSeq(h, Same)

\* jd_hist_allbands[-2] needs two entries (IndexError otherwise); unpacking
\* np.array([...]).T into mag_hist, err_hist needs at least one entry of the
\* band (ValueError otherwise), for each of the two bands.
EnrichRaises(a) ==
    \/ Len(NotNone(a.hist)) < 2
    \/ \E filt \in {1, 2} : Len(InBand(a.hist, filt)) = 0

----------------------------------------------------------------------------
(* The notification loop *)

\* requests.post: the request is answered, is answered with an HTTP error
\* status (requests.post returns the response all the same, and the loop
\* drops it), or raises (ConnectionError, Timeout, MissingSchema, ...).
Outcomes == {"ok", "error", "raise"}

StandardChannels == <<"KNWEBHOOK", "KNWEBHOOK_FINK">>

dwf_ztf_fields == {1525, 530, 482, 1476, 388, 1433}

\* Mutant of Candidates: the enumerate() index is used as the position in
\* the batch (objectId[i] instead of objectId[f_kn][i]).
CandidatesByRowNumber(f) == [r \in 1..Len(Masked(f)) |-> r]

\* Mutant of Candidates: the loop goes through the candidates from the last
\* one to the first.
CandidatesInReverse(f) ==
    [r \in 1..Len(Masked(f)) |-> Masked(f)[Len(Masked(f)) + 1 - r]]

\* for i, alertID in enumerate(objectId[f_kn])
Candidates(f) == Masked(f)

LoopDone == i > Len(Candidates(f_kn))

\* The alert of the current iteration: its position in the batch.
Current == Candidates(f_kn)[i]

\* now = datetime.datetime.utcnow() is read in the amateur block only; the
\* entries of that block keep the day read (0 elsewhere).
NowRead(chan) == IF chan = "KNWEBHOOK_AMA_GALAXIES" THEN day ELSE 0

Post(k, chan, m) ==
    [kind |-> "post", alert |-> k, chan |-> chan, now |-> NowRead(chan),
     msg |-> m]

Warn(k, chan) ==
    [kind |-> "warn", alert |-> k, chan |-> chan, now |-> NowRead(chan),
     msg |-> <<>>]

\* Mutant of HostText: the texts are built from the first entries of the
\* lists (index 0 instead of i).
HostTextOfFirstRow ==
    [host |-> host_galaxies[1], abs_mag |-> abs_mag_candidate[1],
     sep |-> host_alert_separation[1]]

\* host_text and crossmatch_text of the blocks built in iteration i.
HostText ==
    [host |-> host_galaxies[i], abs_mag |-> abs_mag_candidate[i],
     sep |-> host_alert_separation[i]]

\* Mutant of AmateurGate: now.weekday() == 5 (Monday is 0 there, so 5 is
\* Saturday) instead of now.isoweekday() == 5.
AmateurGateWeekday(a) ==
    /\ Abs(GalacticB(a.ra)) > 20
    /\ Lt(a.mag, 200)
    /\ day = Friday + 1
    /\ "KNWEBHOOK_AMA_GALAXIES" \in env

\* (np.abs(b[i]) > 20) & (mag[i] < 20) & is_friday & ama_in_env
AmateurGate(a) ==
    /\ Abs(GalacticB(a.ra)) > 20
    /\ Lt(a.mag, 200)
    /\ day = Friday
    /\ "KNWEBHOOK_AMA_GALAXIES" \in env

\* (int(field.values[i]) in dwf_ztf_fields) and dwf_in_env
DwfGate(a) == a.field.v \in dwf_ztf_fields /\ "KNWEBHOOK_DWF" \in env

Range(s) == {s[k] : k \in 1..Len(s)}

\* One requests.post call of the loop body, then on to block ns of iteration ni.
Send(chan, m, ni, ns) ==
    \E o \in Outcomes :
        /\ log' = Append(log, Post(Current, chan, m))
        /\ IF o = "raise"
           THEN pc' = "raised" /\ cause' = "post" /\ UNCHANGED <<i, step>>
           ELSE i' = ni /\ step' = ns /\ UNCHANGED <<pc, cause>>

\* The else branch of a channel block: log.warning, nothing is sent.
Skip(chan, ni, ns) ==
    /\ log' = Append(log, Warn(Current, chan))
    /\ i' = ni /\ step' = ns
    /\ UNCHANGED <<pc, cause>>

----------------------------------------------------------------------------
(* State machine *)

Inputs == <<variant, batch, catalogFile>>
Matches ==
    <<galaxy_matching, host_galaxies, abs_mag_candidate, host_alert_separation>>
Loaded == <<pdf_mangrove, nloads>>
Outside == <<env, day, run, prev>>

DaysOf(v) == IF v = "early_kn" THEN Days ELSE {Friday}

CatalogsOf(v) == IF v = "early_kn" THEN Catalogs ELSE {<<>>}

Init ==
    /\ variant \in Variants
    /\ batch \in Batches(variant)
    /\ catalogFile \in CatalogsOf(variant)
    /\ env \in SUBSET Webhooks(variant)
    /\ day \in DaysOf(variant)
    /\ run = 1
    /\ prev = <<>>
    /\ pc = "cuts"
    /\ f_kn = <<>>
    /\ pdf_mangrove = <<>>
    /\ nloads = 0
    /\ galaxy_matching = <<>>
    /\ host_galaxies = <<>>
    /\ abs_mag_candidate = <<>>
    /\ host_alert_separation = <<>>
    /\ i = 1
    /\ step = 1
    /\ log = <<>>
    /\ cause = "none"

\* The casts and comparisons on the columns, up to the first value of f_kn
\* (early_sn_candidates_ returns it).
ApplyCuts ==
    /\ pc = "cuts"
    /\ IF CastRaises(variant, batch)
       THEN pc' = "raised" /\ cause' = "cast" /\ UNCHANGED f_kn
       ELSE /\ f_kn' = Cuts(variant, batch)
            /\ pc' = IF variant = "early_kn" THEN "xmatch"
                     ELSE IF variant = "kn" THEN "notify"
                     ELSE "done"
            /\ UNCHANGED cause
    /\ UNCHANGED <<Inputs, Outside, Loaded, Matches, i, step, log>>

\* if f_kn.any(): load the catalog, cross-match, override f_kn.
LoadAndCrossMatch ==
    /\ variant = "early_kn" /\ pc = "xmatch"
    /\ AnyTrue(f_kn)
    /\ pdf_mangrove' = catalogFile
    /\ nloads' = nloads + 1
    /\ LET m == CrossMatch(Masked(f_kn), batch, pdf_mangrove', NoMatches)
       IN  /\ galaxy_matching' = m.matching
           /\ host_galaxies' = m.hosts
           /\ abs_mag_candidate' = m.absmags
           /\ host_alert_separation' = m.seps
           /\ f_kn' = Overridden(f_kn, m.matching)
    /\ pc' = "notify"
    /\ UNCHANGED <<Inputs, Outside, i, step, log, cause>>

\* f_kn.any() is False: nothing is loaded.
NoCandidate ==
    /\ variant = "early_kn" /\ pc = "xmatch"
    /\ ~AnyTrue(f_kn)
    /\ pc' = "notify"
    /\ UNCHANGED <<Inputs, Outside, Loaded, Matches, f_kn, i, step, log,
                   cause>>

\* for url_name in ['KNWEBHOOK', 'KNWEBHOOK_FINK']
PostStandard ==
    /\ variant = "early_kn" /\ pc = "notify" /\ ~LoopDone
    /\ step \in 1..Len(StandardChannels)
    /\ IF StandardChannels[step] \in env
       THEN Send(StandardChannels[step], HostText, i, step + 1)
       ELSE Skip(StandardChannels[step], i, step + 1)
    /\ UNCHANGED <<Inputs, Outside, Loaded, Matches, f_kn>>

\* Grandma amateur channel
PostAmateur ==
    /\ variant = "early_kn" /\ pc = "notify" /\ ~LoopDone
    /\ step = Len(StandardChannels) + 1
    /\ IF AmateurGate(batch[Current])
       THEN Send("KNWEBHOOK_AMA_GALAXIES", HostText, i, step + 1)
       ELSE Skip("KNWEBHOOK_AMA_GALAXIES", i, step + 1)
    /\ UNCHANGED <<Inputs, Outside, Loaded, Matches, f_kn>>

\* DWF channel and requirements; int() of a field that is no number raises.
PostDwf ==
    /\ variant = "early_kn" /\ pc = "notify" /\ ~LoopDone
    /\ step = Len(StandardChannels) + 2
    /\ IF ~IsNum(batch[Current].field)
       THEN /\ pc' = "raised" /\ cause' = "field"
            /\ UNCHANGED <<i, step, log>>
       ELSE IF DwfGate(batch[Current])
       THEN Send("KNWEBHOOK_DWF", HostText, i + 1, 1)
       ELSE Skip("KNWEBHOOK_DWF", i + 1, 1)
    /\ UNCHANGED <<Inputs, Outside, Loaded, Matches, f_kn>>

\* kn_candidates, KNWEBHOOK defined: one iteration of the loop.
KnNotify ==
    /\ variant = "kn" /\ pc = "notify" /\ ~LoopDone
    /\ "KNWEBHOOK" \in env
    /\ IF EnrichRaises(batch[Current])
       THEN /\ pc' = "raised" /\ cause' = "enrich"
            /\ UNCHANGED <<i, step, log>>
       ELSE Send("KNWEBHOOK", <<>>, i + 1, step)
    /\ UNCHANGED <<Inputs, Outside, Loaded, Matches, f_kn>>

\* kn_candidates, KNWEBHOOK not defined: one warning, then return f_kn.
KnNoWebhook ==
    /\ variant = "kn" /\ pc = "notify"
    /\ "KNWEBHOOK" \notin env
    /\ log' = Append(log, Warn(0, "KNWEBHOOK"))
    /\ pc' = "done"
    /\ UNCHANGED <<Inputs, Outside, Loaded, Matches, f_kn, i, step,
                   cause>>

\* return f_kn
Return ==
    /\ pc = "notify" /\ LoopDone
    /\ variant = "kn" => "KNWEBHOOK" \in env
    /\ pc' = "done"
    /\ UNCHANGED <<Inputs, Outside, Loaded, Matches, f_kn, i, step, log,
                   cause>>

\* Midnight UTC passes while the loop runs.  The day is read in the amateur
\* block only, so midnight is placed right before that read.
Tick ==
    /\ variant = "early_kn" /\ pc = "notify" /\ ~LoopDone
    /\ step = Len(StandardChannels) + 1
    /\ day + 1 \in Days
    /\ day' = day + 1
    /\ UNCHANGED <<Inputs, env, run, prev, pc, f_kn, Loaded, Matches, i, step,
                   log, cause>>

\* The same batch is submitted again, in whatever environment and on
\* whatever day; the locals of the previous call are gone.
Resubmit ==
    /\ pc = "done" /\ run < MaxRuns
    /\ run' = run + 1
    /\ prev' = f_kn
    /\ env' \in SUBSET Webhooks(variant)
    /\ day' \in DaysOf(variant)
    /\ pc' = "cuts"
    /\ f_kn' = <<>>
    /\ pdf_mangrove' = <<>>
    /\ galaxy_matching' = <<>>
    /\ host_galaxies' = <<>>
    /\ abs_mag_candidate' = <<>>
    /\ host_alert_separation' = <<>>
    /\ i' = 1
    /\ step' = 1
    /\ log' = <<>>
    /\ UNCHANGED <<Inputs, nloads, cause>>

Next ==
    \/ ApplyCuts
    \/ LoadAndCrossMatch
    \/ NoCandidate
    \/ PostStandard
    \/ PostAmateur
    \/ PostDwf
    \/ KnNotify
    \/ KnNoWebhook
    \/ Return
    \/ Tick
    \/ Resubmit

Spec == Init /\ [][Next]_vars

----------------------------------------------------------------------------
(* Properties *)

Posted(k, chan) ==
    \E e \in Range(log) : e.kind = "post" /\ e.alert = k /\ e.chan = chan

Warned(k, chan) ==
    \E e \in Range(log) : e.kind = "warn" /\ e.alert = k /\ e.chan = chan

\* The call is over: it returned, or an exception left it.
Ended == pc \in {"done", "raised"}

\* C1: in early_kn_candidates and kn_candidates, every request that is posted,
\* on whatever channel, is for an alert whose verdict is True: an alert whose
\* verdict is False never reaches the notification loop.
C1_PostsOnlyForTrueVerdicts ==
    \A e \in Range(log) : e.kind = "post" => f_kn[e.alert]

\* A call of early_kn_candidates returned, it posted for one alert, and another
\* alert of the batch passed the cuts and was rejected by the cross-match.
C1_Witness ==
    /\ variant = "early_kn" /\ pc = "done"
    /\ \E e \in Range(log) : e.kind = "post"
    /\ \E k \in 1..Len(batch) : EknCuts(batch[k]) /\ ~f_kn[k]

\* C2 (as claimed): once the verdict vector is computed, nothing in the
\* notification stage (a request that raises, a message that cannot be built)
\* keeps the call from returning it.
C2_NotificationNeverAborts == ~(pc = "raised" /\ cause # "cast")

\* C3: after the cross-match of early_kn_candidates, the verdict of an alert is
\* True exactly when the alert passes the cuts of section 4.1 and some catalog
\* entry within 2 degrees of it is closer than 0.01 / ang_dist radians and
\* gives an absolute magnitude strictly between -17 and -15.
C3_VerdictIffCutsAndHost ==
    (variant = "early_kn" /\ (pc \in {"notify", "done"}
                               \/ (pc = "raised" /\ cause # "cast"))) =>
        \A k \in 1..Len(batch) :
            LET a == batch[k]
                PassesCuts ==
                    /\ a.drb.t = "num" /\ a.drb.v > 5
                    /\ a.classtar.t = "num" /\ a.classtar.v > 4
                    /\ a.jd.t = "num" /\ a.jdstarthist.t = "num"
                    /\ a.jd.v - a.jdstarthist.v < 25
                    /\ a.cdsxmatch \in
                         {"Unknown", "Transient", "Fail"} \cup list_simbad_galaxies
                    /\ a.roid.t = "num" /\ a.roid.v # 3
                HasHost ==
                    \E g \in 1..Len(catalogFile) :
                        LET gal == catalogFile[g]
                            sep == Abs(a.ra - gal.ra)
                            M == a.mag.v - 250 - 5 * gal.lum_dex
                        IN  /\ sep <= TwoDegrees
                            /\ sep * gal.ang_dist < 1000000
                            /\ a.mag.t = "num"
                            /\ -170 < M /\ M < -150
            IN  f_kn[k] <=> (PassesCuts /\ HasHost)

\* A call returned with a True verdict, and with a False verdict for an alert
\* that passes the cuts and is, more than 2 degrees away, within
\* 0.01 / ang_dist of an entry that gives it an absolute magnitude of -16.
C3_Witness ==
    /\ variant = "early_kn" /\ pc = "done"
    /\ \E k \in 1..Len(batch) : f_kn[k]
    /\ \E k \in 1..Len(batch) :
          /\ EknCuts(batch[k]) /\ ~f_kn[k]
          /\ batch[k].ra = RaHigh + 52360

\* C4: in each of the three filters, a True verdict implies drb > 0.5 and
\* classtar > 0.4, both strict.
C4_TrueImpliesDrbAndClasstar ==
    \A k \in 1..Len(f_kn) :
        f_kn[k] =>
            /\ batch[k].drb.t = "num" /\ batch[k].drb.v > 5
            /\ batch[k].classtar.t = "num" /\ batch[k].classtar.v > 4

\* A call returned True for one alert and False for an alert that differs
\* from it only by a drb of exactly 0.5.
C4_Witness ==
    /\ pc = "done"
    /\ \E j, k \in 1..Len(batch) :
          /\ f_kn[j] /\ ~f_kn[k]
          /\ batch[k] = [batch[j] EXCEPT !.drb = Num(5)]

C6_BadValuesOnlyFailTheCut ==
    /\ ~(pc = "raised" /\ cause = "cast")
    /\ \A k \in 1..Len(f_kn) :
          LET a == batch[k]
              checked == IF variant = "early_kn"
                         THEN {a.drb, a.classtar, a.jd, a.jdstarthist, a.roid}
                         ELSE IF variant = "kn"
                         THEN {a.knscore, a.drb, a.classtar, a.jdstarthist,
                               a.ndethist}
                         ELSE {a.rf_snia_vs_nonia, a.ndethist, a.drb,
                               a.classtar}
          IN  (\E c \in checked : c.t # "num") => ~f_kn[k]

\* C7 (as claimed), for the calls of early_kn_candidates in which every
\* request is answered: a channel that is skipped is skipped alone.  The call
\* returns, and for every accepted candidate each standard channel has its
\* request when its endpoint is defined and its warning when it is not, and
\* the DWF channel has its request when its endpoint is defined and the field
\* is in the list.
C7_SkippedChannelIsSkippedAlone ==
    (variant = "early_kn" /\ Ended /\ cause \notin {"cast", "post"}) =>
        /\ pc = "done"
        /\ \A k \in Range(Candidates(f_kn)) :
              /\ \A chan \in Range(StandardChannels) :
                    IF chan \in env THEN Posted(k, chan) ELSE Warned(k, chan)
              /\ ( /\ "KNWEBHOOK_DWF" \in env
                   /\ batch[k].field.t = "num"
                   /\ batch[k].field.v \in dwf_ztf_fields ) =>
                        Posted(k, "KNWEBHOOK_DWF")

\* C8: in early_kn_candidates a request is posted on KNWEBHOOK_AMA_GALAXIES for
\* an alert exactly when the amateur block was reached for it on a Friday
\* (the day read at dispatch), the endpoint is defined, abs(b) > 20 degrees and
\* the magnitude is below 20; so a candidate at b = 5 degrees gets no request
\* on that channel, on any day.
C8_AmateurPostIffGate ==
    variant = "early_kn" =>
        \A k \in 1..Len(batch) :
            /\ Posted(k, "KNWEBHOOK_AMA_GALAXIES") <=>
                  /\ \E e \in Range(log) :
                        /\ e.alert = k /\ e.chan = "KNWEBHOOK_AMA_GALAXIES"
                        /\ e.now = Friday
                  /\ "KNWEBHOOK_AMA_GALAXIES" \in env
                  /\ Abs(GalacticB(batch[k].ra)) > 20
                  /\ batch[k].mag.t = "num" /\ batch[k].mag.v < 200
            /\ GalacticB(batch[k].ra) = 5 =>
                  ~Posted(k, "KNWEBHOOK_AMA_GALAXIES")

\* A call returned after it posted on the amateur channel for one candidate
\* and, the same Friday and with the endpoint defined, skipped the channel for
\* a candidate at b = 5 degrees.
C8_Witness ==
    /\ variant = "early_kn" /\ pc = "done"
    /\ "KNWEBHOOK_AMA_GALAXIES" \in env
    /\ \E e1, e2 \in Range(log) :
          /\ e1.kind = "post" /\ e1.chan = "KNWEBHOOK_AMA_GALAXIES"
          /\ e2.kind = "warn" /\ e2.chan = "KNWEBHOOK_AMA_GALAXIES"
          /\ e2.now = Friday
          /\ GalacticB(batch[e2.alert].ra) = 5

\* C9 (as claimed), for the calls of early_kn_candidates in which every
\* request is answered: for every accepted candidate, a field of the list and
\* a defined KNWEBHOOK_DWF give a request on that channel; a field that is not
\* in the list, or is absent, gives no request there but the warning of the
\* skipped channel, and the requests on the defined standard channels.
C9_DwfChannelFollowsField ==
    (variant = "early_kn" /\ Ended /\ cause \notin {"cast", "post"}) =>
        \A k \in Range(Candidates(f_kn)) :
            LET fld == batch[k].field
                listed == fld.t = "num" /\ fld.v \in {1525, 530, 482, 1476, 388, 1433}
            IN  /\ (listed /\ "KNWEBHOOK_DWF" \in env) =>
                      Posted(k, "KNWEBHOOK_DWF")
                /\ ~listed =>
                      /\ ~Posted(k, "KNWEBHOOK_DWF")
                      /\ Warned(k, "KNWEBHOOK_DWF")
                      /\ \A chan \in Range(StandardChannels) \cap env :
                            Posted(k, chan)

\* C10 (as claimed), for the calls in which every request is answered: for
\* every accepted candidate and every defined primary endpoint (KNWEBHOOK and
\* KNWEBHOOK_FINK in early_kn_candidates, KNWEBHOOK in kn_candidates) the call
\* posts exactly one request.
C10_OnePostPerPrimaryEndpoint ==
    (variant \in {"early_kn", "kn"} /\ Ended /\ cause \notin {"cast", "post"}) =>
        \A k \in Range(Candidates(f_kn)) :
            \A chan \in (IF variant = "kn" THEN {"KNWEBHOOK"}
                         ELSE {"KNWEBHOOK", "KNWEBHOOK_FINK"}) \cap env :
                Cardinality({n \in 1..Len(log) :
                                /\ log[n].kind = "post"
                                /\ log[n].alert = k
                                /\ log[n].chan = chan}) = 1

\* C11 (as claimed): in kn_candidates the loop builds the message of every
\* accepted candidate whatever its history (entries without photometry, one
\* band only, fewer than two entries with photometry): the enrichment never
\* raises.
C11_EnrichmentNeverRaises == ~(pc = "raised" /\ cause = "enrich")

\* C12 (as claimed): over the batches processed by early_kn_candidates the
\* catalog is read once: processing a batch never reads it again.
C12_CatalogLoadedOnce == nloads <= 1

\* C13: in early_kn_candidates, for an alert that satisfies every other
\* predicate, the verdict is True exactly when jd - jdstarthist < 0.25 days,
\* strictly: before the cross-match for the alerts that pass the other cuts,
\* after it for those that have an accepted host as well.  An alert at exactly
\* 0.25 days gets False.
C13_EarlyDetectionIsStrict ==
    (variant = "early_kn" /\ pc # "cuts" /\ cause # "cast") =>
        \A k \in 1..Len(batch) :
            LET a == batch[k]
                OtherCuts ==
                    /\ a.drb.t = "num" /\ a.drb.v > 5
                    /\ a.classtar.t = "num" /\ a.classtar.v > 4
                    /\ a.cdsxmatch \in keep_cds
                    /\ a.roid.t = "num" /\ a.roid.v # 3
                Host == pc # "xmatch" => candidates_number(a, catalogFile) # <<>>
                Early == /\ a.jd.t = "num" /\ a.jdstarthist.t = "num"
                         /\ a.jd.v - a.jdstarthist.v < 25
                AtThreshold == /\ a.jd.t = "num" /\ a.jdstarthist.t = "num"
                               /\ a.jd.v - a.jdstarthist.v = 25
            IN  /\ (OtherCuts /\ Host) => (f_kn[k] <=> Early)
                /\ AtThreshold => ~f_kn[k]

\* A call returned True for one alert and False for an alert that differs
\* from it only by a jd - jdstarthist of exactly 0.25 days.
C13_Witness ==
    /\ variant = "early_kn" /\ pc = "done"
    /\ \E j, k \in 1..Len(batch) :
          /\ f_kn[j] /\ ~f_kn[k]
          /\ batch[k].jd.v - batch[k].jdstarthist.v = 25
          /\ batch[k] = [batch[j] EXCEPT !.jd = batch[k].jd]

\* The formula of early_sn_candidates_ on the fields of one alert.
SnFormula(a) ==
    /\ \/ (a.snn_snia_vs_nonia.t = "num" /\ a.snn_snia_vs_nonia.v > 5)
       \/ (a.snn_sn_vs_all.t = "num" /\ a.snn_sn_vs_all.v > 5)
    /\ a.cdsxmatch \in
          {"Unknown", "Transient", "Fail", "Candidate_SN*", "SN"}
              \cup list_simbad_galaxies
    /\ a.drb.t = "num" /\ a.drb.v > 5
    /\ a.classtar.t = "num" /\ a.classtar.v > 4
    /\ a.ndethist.t = "num" /\ a.ndethist.v <= 20
    /\ a.rf_snia_vs_nonia.t = "num" /\ a.rf_snia_vs_nonia.v > 5

\* C14 (as claimed): every call of early_sn_candidates_ returns one boolean
\* per alert of the batch, in the position of the alert, and the boolean of an
\* alert is True exactly when the fields of that alert satisfy the formula,
\* whatever the other alerts of the batch.
C14_SnVectorIsTheFormula ==
    (variant = "early_sn" /\ pc # "cuts") =>
        /\ pc = "done"
        /\ Len(f_kn) = Len(batch)
        /\ \A k \in 1..Len(batch) : f_kn[k] <=> SnFormula(batch[k])

\* The part of C14 the code satisfies: a call of early_sn_candidates_ that
\* returns, returns the formula of each alert at the position of the alert.
C14_ReturnedVectorIsTheFormula ==
    (variant = "early_sn" /\ pc = "done") =>
        /\ Len(f_kn) = Len(batch)
        /\ \A k \in 1..Len(batch) : f_kn[k] <=> SnFormula(batch[k])

\* The positions in the catalog file of the entries that pass the acceptance
\* test for alert a: within 2 degrees, closer than 0.01 / ang_dist radians,
\* absolute magnitude strictly between -17 and -15.
AcceptedEntries(a) ==
    {g \in 1..Len(catalogFile) :
        LET gal == catalogFile[g]
            sep == Abs(a.ra - gal.ra)
        IN  /\ sep <= TwoDegrees
            /\ sep * gal.ang_dist < 1000000
            /\ a.mag.t = "num"
            /\ -170 < a.mag.v - 250 - 5 * gal.lum_dex
            /\ a.mag.v - 250 - 5 * gal.lum_dex < -150}

\* The cross-match of early_kn_candidates is over (or was not needed).
CrossMatched ==
    /\ variant = "early_kn"
    /\ pc \in {"notify", "done"} \/ (pc = "raised" /\ cause # "cast")

C16_PostsFollowAlertOrder ==
    \A n, m \in 1..Len(log) :
        (n < m /\ log[n].kind = "post" /\ log[m].kind = "post") =>
            log[n].alert <= log[m].alert

\* A call of early_kn_candidates returned after it posted on two channels for
\* the first alert of the batch and then on a channel for the second.
C16_Witness ==
    /\ variant = "early_kn" /\ pc = "done"
    /\ \E n, m, q \in 1..Len(log) :
          /\ n < m /\ m < q
          /\ log[n].kind = "post" /\ log[m].kind = "post" /\ log[q].kind = "post"
          /\ log[n].alert = 1 /\ log[m].alert = 1 /\ log[q].alert = 2
          /\ log[n].chan # log[m].chan

\* C17: after the cross-match of early_kn_candidates the lists host_galaxies,
\* abs_mag_candidate and host_alert_separation have one element per alert
\* with a True verdict, and the host, the absolute magnitude and the
\* separation of every message posted for an alert are those computed for
\* that alert.
C17_MatchListsFollowVerdict ==
    CrossMatched =>
        /\ Len(host_galaxies) = Cardinality({k \in 1..Len(f_kn) : f_kn[k]})
        /\ Len(abs_mag_candidate) = Len(host_galaxies)
        /\ Len(host_alert_separation) = Len(host_galaxies)
        /\ \A e \in Range(log) :
              e.kind = "post" =>
                  LET a == batch[e.alert]
                  IN  /\ e.msg.host \in AcceptedEntries(a)
                      /\ e.msg.abs_mag =
                            a.mag.v - 250 - 5 * catalogFile[e.msg.host].lum_dex
                      /\ e.msg.sep = Abs(a.ra - catalogFile[e.msg.host].ra)

\* A call returned for a batch whose first alert passed the cuts and has no
\* accepted host, after it posted for the second alert with the host of the
\* second alert.
C17_Witness ==
    /\ variant = "early_kn" /\ pc = "done"
    /\ Len(batch) = 2
    /\ EknCuts(batch[1]) /\ ~f_kn[1] /\ f_kn[2]
    /\ Len(host_galaxies) = 1
    /\ \E e \in Range(log) :
          /\ e.kind = "post" /\ e.alert = 2
          /\ e.msg.host \in AcceptedEntries(batch[2])

====
